---------------------------- MODULE Spec2Model ----------------------------
(***************************************************************************)
(* The in-memory "posts" store of src/app/main.py (src/main.py is the same *)
(* code line for line): the module-level list my_posts and the path        *)
(* operations latest_post, get_post, get_posts, create_posts, delete_post  *)
(* and method_name (the PUT handler), with the helper get_index_by_id.     *)
(*                                                                         *)
(* Python's None is the empty sequence here: an optional value is <<>> or  *)
(* <<v>>.  List indices are 1-based (Python's are 0-based); the index      *)
(* "None" of get_index_by_id is 0.                                         *)
(***************************************************************************)
EXTENDS Integers, Sequences, FiniteSets, TLC

VARIABLES
    my_posts,   \* the module-level list of post dicts
    pc,         \* pc[w]: where worker w stands in the handler it runs
    id,         \* id[w]: the local variable id of create_posts
    new_post,   \* new_post[w]: the local variable new_post of create_posts
    it,         \* it[w]: how many posts the list iterator of create_posts' scan has yielded
    n,          \* n[w]: the len(my_posts) that get_index_by_id took for its range
    idx,        \* idx[w]: the index get_index_by_id looked at last, then the one it returned
    request,    \* request[w]: the request worker w serves, or served last
    response,   \* response[w]: what that request ended with, or Pending
    inserted    \* history: the ids of the posts held, in the order of insertion

vars == <<my_posts, pc, id, new_post, it, n, idx, request, response, inserted>>

---------------------------------------------------------------------------
(* Bounds and program constants *)

\* The upper end of the id draw, standing for the 1000000 of
\* random.randint(3, 1000000): the draw range is IdLo..MaxId.
MaxId == 5

\* The lower end of the id draw.
IdLo == 3

HTTP_200_OK == 200
HTTP_201_CREATED == 201
HTTP_202_ACCEPTED == 202
HTTP_204_NO_CONTENT == 204
HTTP_404_NOT_FOUND == 404
\* What the framework answers when a handler raises anything but HTTPException.
HTTP_500_INTERNAL_SERVER_ERROR == 500

\* The threads of the request dispatcher.
Workers == {1, 2}

IdRange == IdLo..MaxId

\* The ids a get, update or delete request may name.
ReqIds == 1..MaxId

None == <<>>

\* Request bodies that pass validation.  The first omits published and rating.
Bodies ==
    { [title |-> "A", content |-> "B"],
      [title |-> "C", content |-> "D", published |-> FALSE, rating |-> 5] }

---------------------------------------------------------------------------
(* Pure parts of the code *)

\* A dump whose published defaults to False, as the seed posts have it.
model_dump_published_false(body) ==
    [ title     |-> body.title,
      content   |-> body.content,
      published |-> IF "published" \in DOMAIN body THEN body.published ELSE FALSE,
      rating    |-> IF "rating" \in DOMAIN body THEN <<body.rating>> ELSE <<>> ]

\* class Post(BaseModel): validation fills the defaults published = True and
\* rating = None; post.model_dump(mode="json") is the dict of the four fields.
model_dump(body) ==
    [ title     |-> body.title,
      content   |-> body.content,
      published |-> IF "published" \in DOMAIN body THEN body.published ELSE TRUE,
      rating    |-> IF "rating" \in DOMAIN body THEN <<body.rating>> ELSE None ]

\* d[key] = value on a model_dump dict that has no "id" yet.
WithId(d, i) ==
    [ title |-> d.title, content |-> d.content, published |-> d.published,
      rating |-> d.rating, id |-> i ]

\* The initial value of my_posts.
SeedPosts ==
    << [ title |-> "title of post 1", content |-> "content of post 1",
         published |-> FALSE, rating |-> None, id |-> 1 ],
       [ title |-> "title of post 2", content |-> "content of post 2",
         published |-> FALSE, rating |-> None, id |-> 2 ] >>

\* next((True for post in my_posts if post["id"] == id), False) when the scan
\* runs with no other thread in between: some post of the list has the id.
Collides(posts, i) == \E k \in 1..Len(posts) : posts[k].id = i

\* A scan that stops one post early and never looks at the newest post.
ExhaustedBeforeLast(posts, k) == k >= Len(posts) - 1

\* for post in my_posts: the list iterator that has yielded k posts ends when
\* k is not below the length the list has now.
Exhausted(posts, k) == k >= Len(posts)

\* random.randint(3, 1000000): any value of the range.
randint == IdRange

Min(S) == CHOOSE x \in S : \A y \in S : x <= y

\* next((idx for idx in range(len(my_posts)) if my_posts[idx]["id"] == id), None):
\* the first index whose post has the id, 0 for None.
IndexOf(posts, i) ==
    LET hits == { k \in 1..Len(posts) : posts[k].id = i }
    IN  IF hits = {} THEN 0 ELSE Min(hits)

\* del my_posts[idx - 1]: the post before, the last one when idx is the first.
DelBefore(posts, ix) ==
    LET at == IF ix = 1 THEN Len(posts) ELSE ix - 1
    IN  [ k \in 1..(Len(posts) - 1) |-> IF k < at THEN posts[k] ELSE posts[k + 1] ]

\* A removal that fills the hole with the last post and pops the end.
DelSwapWithLast(posts, ix) ==
    [ k \in 1..(Len(posts) - 1) |-> IF k = ix THEN posts[Len(posts)] ELSE posts[k] ]

\* del my_posts[idx]
DelAt(posts, ix) ==
    [ k \in 1..(Len(posts) - 1) |-> IF k < ix THEN posts[k] ELSE posts[k + 1] ]

\* An assignment that merges: a rating left out keeps the stored rating.
AssignMerged(posts, ix, p) ==
    [ posts EXCEPT ![ix] =
        [ p EXCEPT !.rating = IF p.rating = <<>> THEN posts[ix].rating ELSE p.rating ] ]

\* my_posts[idx] = post_dict
AssignAt(posts, ix, p) == [ posts EXCEPT ![ix] = p ]

\* my_posts.append(new_post)
AppendPost(posts, p) == Append(posts, p)

\* my_posts[0]
FirstPost(posts) == posts[1]

\* my_posts[-1]
LastPost(posts) == posts[Len(posts)]

\* next((post for post in my_posts if post["id"] == id), None), as a sequence of
\* no post (None) or one.
FindPost(posts, i) ==
    IF IndexOf(posts, i) = 0 THEN None ELSE <<posts[IndexOf(posts, i)]>>

---------------------------------------------------------------------------
(* Requests and responses *)

Pending == [ status |-> 0, raised |-> "", body |-> <<>> ]

\* A handler returned: the status of its decorator and the posts it returned.
Returned(code, posts) == [ status |-> code, raised |-> "", body |-> posts ]

\* raise HTTPException(status_code=status.HTTP_404_NOT_FOUND, ...)
NotFound == [ status |-> HTTP_404_NOT_FOUND, raised |-> "HTTPException", body |-> <<>> ]

\* my_posts[-1] on an empty list raises IndexError, which no handler catches.
IndexError ==
    [ status |-> HTTP_500_INTERNAL_SERVER_ERROR, raised |-> "IndexError", body |-> <<>> ]

NoRequest == [ op |-> "none", id |-> 0, body |-> <<>> ]

Req(op, i, body) == [ op |-> op, id |-> i, body |-> body ]

\* The history of insertions after the post with id i is removed.
Without(s, i) == SelectSeq(s, LAMBDA x : x # i)

\* The history of insertions after the post at place k of the list is removed.
WithoutPlace(s, k) == SubSeq(s, 1, k - 1) \o SubSeq(s, k + 1, Len(s))

---------------------------------------------------------------------------
(* The state after the module is imported *)

Init ==
    /\ my_posts = SeedPosts
    /\ pc = [ w \in Workers |-> "idle" ]
    /\ id = [ w \in Workers |-> 0 ]
    /\ new_post = [ w \in Workers |-> None ]
    /\ it = [ w \in Workers |-> 0 ]
    /\ n = [ w \in Workers |-> 0 ]
    /\ idx = [ w \in Workers |-> 0 ]
    /\ request = [ w \in Workers |-> NoRequest ]
    /\ response = [ w \in Workers |-> Pending ]
    /\ inserted = <<1, 2>>

---------------------------------------------------------------------------
(* create_posts, statement by statement *)

\* new_post = post.model_dump(mode="json"); id = random.randint(3, 1000000)
CreateBegin(w, body) ==
    /\ pc[w] = "idle"
    /\ \E i \in randint : id' = [ id EXCEPT ![w] = i ]
    /\ new_post' = [ new_post EXCEPT ![w] = <<model_dump(body)>> ]
    /\ pc' = [ pc EXCEPT ![w] = "scan" ]
    /\ it' = [ it EXCEPT ![w] = 0 ]
    /\ request' = [ request EXCEPT ![w] = Req("create", 0, body) ]
    /\ response' = [ response EXCEPT ![w] = Pending ]
    /\ UNCHANGED <<my_posts, n, idx, inserted>>

\* The generator of the while condition takes the next post of the list, which
\* has another id: the scan goes on.
CreateScanNext(w) ==
    /\ pc[w] = "scan"
    /\ ~Exhausted(my_posts, it[w])
    /\ my_posts[it[w] + 1].id # id[w]
    /\ it' = [ it EXCEPT ![w] = it[w] + 1 ]
    /\ UNCHANGED <<my_posts, pc, id, new_post, n, idx, request, response, inserted>>

\* The next post has the id: the while condition is true,
\* id = random.randint(3, 1000000) again, and the condition scans anew.
CreateRetry(w) ==
    /\ pc[w] = "scan"
    /\ ~Exhausted(my_posts, it[w])
    /\ my_posts[it[w] + 1].id = id[w]
    /\ \E i \in randint : id' = [ id EXCEPT ![w] = i ]
    /\ it' = [ it EXCEPT ![w] = 0 ]
    /\ UNCHANGED <<my_posts, pc, new_post, n, idx, request, response, inserted>>

\* The list iterator is at the end: next(..., False) is False, the loop is left.
CreateExitLoop(w) ==
    /\ pc[w] = "scan"
    /\ Exhausted(my_posts, it[w])
    /\ pc' = [ pc EXCEPT ![w] = "append" ]
    /\ it' = [ it EXCEPT ![w] = 0 ]
    /\ UNCHANGED <<my_posts, id, new_post, n, idx, request, response, inserted>>

\* new_post["id"] = id; my_posts.append(new_post); return {"data" : new_post}
CreateAppend(w) ==
    /\ pc[w] = "append"
    /\ LET p == WithId(new_post[w][1], id[w])
       IN  /\ my_posts' = AppendPost(my_posts, p)
           /\ response' = [ response EXCEPT ![w] = Returned(HTTP_201_CREATED, <<p>>) ]
    /\ inserted' = Append(inserted, id[w])
    /\ pc' = [ pc EXCEPT ![w] = "idle" ]
    /\ id' = [ id EXCEPT ![w] = 0 ]
    /\ new_post' = [ new_post EXCEPT ![w] = None ]
    /\ UNCHANGED <<it, n, idx, request>>

create_posts(w) ==
    \/ \E body \in Bodies : CreateBegin(w, body)
    \/ CreateScanNext(w)
    \/ CreateRetry(w)
    \/ CreateExitLoop(w)
    \/ CreateAppend(w)

---------------------------------------------------------------------------
(* The other handlers, each a single step of a worker that runs alone *)

\* return {"detail" : my_posts[-1]}
latest_post(w) ==
    /\ pc[w] = "idle"
    /\ request' = [ request EXCEPT ![w] = Req("latest", 0, <<>>) ]
    /\ response' = [ response EXCEPT ![w] =
            IF Len(my_posts) = 0 THEN IndexError
            ELSE Returned(HTTP_200_OK, <<LastPost(my_posts)>>) ]
    /\ UNCHANGED <<my_posts, pc, id, new_post, it, n, idx, inserted>>

\* post = next(...); if not post: raise HTTPException(404); return {"post detail" : post}
get_post(w, i) ==
    /\ pc[w] = "idle"
    /\ request' = [ request EXCEPT ![w] = Req("get", i, <<>>) ]
    /\ response' = [ response EXCEPT ![w] =
            IF FindPost(my_posts, i) = None THEN NotFound
            ELSE Returned(HTTP_200_OK, FindPost(my_posts, i)) ]
    /\ UNCHANGED <<my_posts, pc, id, new_post, it, n, idx, inserted>>

\* return {"data" : my_posts}
get_posts(w) ==
    /\ pc[w] = "idle"
    /\ request' = [ request EXCEPT ![w] = Req("list", 0, <<>>) ]
    /\ response' = [ response EXCEPT ![w] = Returned(HTTP_200_OK, my_posts) ]
    /\ UNCHANGED <<my_posts, pc, id, new_post, it, n, idx, inserted>>

\* next(..., -1) in place of next(..., None): a miss is the index of the last post.
get_index_or_last(posts, i) ==
    IF IndexOf(posts, i) = 0 THEN Len(posts) ELSE IndexOf(posts, i)

\* idx is None: raise HTTPException(404); else return idx
get_index_by_id(posts, i) == IndexOf(posts, i)

\* del my_posts[get_index_by_id(id)]
delete_post(w, i) ==
    /\ pc[w] = "idle"
    /\ request' = [ request EXCEPT ![w] = Req("delete", i, <<>>) ]
    /\ LET k == get_index_by_id(my_posts, i)
       IN  IF k = 0
           THEN /\ response' = [ response EXCEPT ![w] = NotFound ]
                /\ UNCHANGED <<my_posts, inserted>>
           ELSE /\ my_posts' = DelAt(my_posts, k)
                /\ inserted' = Without(inserted, i)
                /\ response' = [ response EXCEPT ![w] =
                                    Returned(HTTP_204_NO_CONTENT, <<>>) ]
    /\ UNCHANGED <<pc, id, new_post, it, n, idx>>

\* idx = get_index_by_id(id); post_dict = post.model_dump(mode="json");
\* post_dict["id"] = id; my_posts[idx] = post_dict; return {..., "data" : post_dict}
method_name(w, i, body) ==
    /\ pc[w] = "idle"
    /\ request' = [ request EXCEPT ![w] = Req("update", i, body) ]
    /\ LET k == get_index_by_id(my_posts, i)
           post_dict == WithId(model_dump(body), i)
       IN  IF k = 0
           THEN /\ response' = [ response EXCEPT ![w] = NotFound ]
                /\ UNCHANGED my_posts
           ELSE /\ my_posts' = AssignAt(my_posts, k, post_dict)
                /\ response' = [ response EXCEPT ![w] =
                                    Returned(HTTP_202_ACCEPTED, <<post_dict>>) ]
    /\ UNCHANGED <<pc, id, new_post, it, n, idx, inserted>>

---------------------------------------------------------------------------
(* Requests served one at a time: the single-threaded dispatcher *)

Handle(w) ==
    \/ create_posts(w)
    \/ latest_post(w)
    \/ get_posts(w)
    \/ \E i \in ReqIds : get_post(w, i)
    \/ \E i \in ReqIds : delete_post(w, i)
    \/ \E i \in ReqIds, body \in Bodies : method_name(w, i, body)

Next == Handle(1)

Spec == Init /\ [][Next]_vars

---------------------------------------------------------------------------
(* Requests served by a pool of threads: the handlers are plain def        *)
(* functions, which the framework runs in worker threads, and the code     *)
(* takes no lock, so the statements of two handlers interleave, and so do  *)
(* the single posts that the scans of my_posts look at.                    *)

\* list[idx] with idx past the end raises IndexError.
InRange(posts, k) == 1 <= k /\ k <= Len(posts)

\* delete_post calls get_index_by_id(id): the generator is made, which takes
\* range(len(my_posts)) at once.
DeleteLookup(w, i) ==
    /\ pc[w] = "idle"
    /\ request' = [ request EXCEPT ![w] = Req("delete", i, <<>>) ]
    /\ response' = [ response EXCEPT ![w] = Pending ]
    /\ pc' = [ pc EXCEPT ![w] = "del_scan" ]
    /\ n' = [ n EXCEPT ![w] = Len(my_posts) ]
    /\ idx' = [ idx EXCEPT ![w] = 0 ]
    /\ UNCHANGED <<my_posts, id, new_post, it, inserted>>

\* method_name calls idx = get_index_by_id(id): the generator is made, which
\* takes range(len(my_posts)) at once.
UpdateLookup(w, i, body) ==
    /\ pc[w] = "idle"
    /\ request' = [ request EXCEPT ![w] = Req("update", i, body) ]
    /\ response' = [ response EXCEPT ![w] = Pending ]
    /\ pc' = [ pc EXCEPT ![w] = "upd_scan" ]
    /\ n' = [ n EXCEPT ![w] = Len(my_posts) ]
    /\ idx' = [ idx EXCEPT ![w] = 0 ]
    /\ UNCHANGED <<my_posts, id, new_post, it, inserted>>

\* get_index_by_id: the next idx of the range is in the list and
\* my_posts[idx]["id"] is another id: the scan goes on.
LookupNext(w) ==
    /\ pc[w] \in {"del_scan", "upd_scan"}
    /\ idx[w] < n[w]
    /\ InRange(my_posts, idx[w] + 1)
    /\ my_posts[idx[w] + 1].id # request[w].id
    /\ idx' = [ idx EXCEPT ![w] = idx[w] + 1 ]
    /\ UNCHANGED <<my_posts, pc, id, new_post, it, n, request, response, inserted>>

\* get_index_by_id: my_posts[idx]["id"] == id: return idx.
LookupFound(w) ==
    /\ pc[w] \in {"del_scan", "upd_scan"}
    /\ idx[w] < n[w]
    /\ InRange(my_posts, idx[w] + 1)
    /\ my_posts[idx[w] + 1].id = request[w].id
    /\ idx' = [ idx EXCEPT ![w] = idx[w] + 1 ]
    /\ pc' = [ pc EXCEPT ![w] = IF pc[w] = "del_scan" THEN "del" ELSE "assign" ]
    /\ n' = [ n EXCEPT ![w] = 0 ]
    /\ UNCHANGED <<my_posts, id, new_post, it, request, response, inserted>>

\* get_index_by_id: the next idx of the range is past the end the list has
\* now: my_posts[idx] raises IndexError, which nothing catches.
LookupIndexError(w) ==
    /\ pc[w] \in {"del_scan", "upd_scan"}
    /\ idx[w] < n[w]
    /\ ~InRange(my_posts, idx[w] + 1)
    /\ response' = [ response EXCEPT ![w] = IndexError ]
    /\ pc' = [ pc EXCEPT ![w] = "idle" ]
    /\ idx' = [ idx EXCEPT ![w] = 0 ]
    /\ n' = [ n EXCEPT ![w] = 0 ]
    /\ UNCHANGED <<my_posts, id, new_post, it, request, inserted>>

\* get_index_by_id: the range is used up, idx is None: raise HTTPException(404).
LookupNone(w) ==
    /\ pc[w] \in {"del_scan", "upd_scan"}
    /\ idx[w] >= n[w]
    /\ response' = [ response EXCEPT ![w] = NotFound ]
    /\ pc' = [ pc EXCEPT ![w] = "idle" ]
    /\ idx' = [ idx EXCEPT ![w] = 0 ]
    /\ n' = [ n EXCEPT ![w] = 0 ]
    /\ UNCHANGED <<my_posts, id, new_post, it, request, inserted>>

\* delete_post: del my_posts[...] at the index get_index_by_id returned.
DeleteDel(w) ==
    /\ pc[w] = "del"
    /\ IF InRange(my_posts, idx[w])
       THEN /\ inserted' = WithoutPlace(inserted, idx[w])
            /\ my_posts' = DelAt(my_posts, idx[w])
            /\ response' = [ response EXCEPT ![w] =
                                Returned(HTTP_204_NO_CONTENT, <<>>) ]
       ELSE /\ response' = [ response EXCEPT ![w] = IndexError ]
            /\ UNCHANGED <<my_posts, inserted>>
    /\ pc' = [ pc EXCEPT ![w] = "idle" ]
    /\ idx' = [ idx EXCEPT ![w] = 0 ]
    /\ UNCHANGED <<id, new_post, it, n, request>>

\* method_name: post_dict = post.model_dump(mode="json"); post_dict["id"] = id;
\* my_posts[idx] = post_dict; return {..., "data" : post_dict}
UpdateAssign(w) ==
    /\ pc[w] = "assign"
    /\ LET post_dict == WithId(model_dump(request[w].body), request[w].id)
       IN  IF InRange(my_posts, idx[w])
           THEN /\ my_posts' = AssignAt(my_posts, idx[w], post_dict)
                /\ inserted' = [ inserted EXCEPT ![idx[w]] = request[w].id ]
                /\ response' = [ response EXCEPT ![w] =
                                    Returned(HTTP_202_ACCEPTED, <<post_dict>>) ]
           ELSE /\ response' = [ response EXCEPT ![w] = IndexError ]
                /\ UNCHANGED <<my_posts, inserted>>
    /\ pc' = [ pc EXCEPT ![w] = "idle" ]
    /\ idx' = [ idx EXCEPT ![w] = 0 ]
    /\ UNCHANGED <<id, new_post, it, n, request>>

\* The bodies the pool is driven with.
ConcBodies == { [title |-> "A", content |-> "B"] }

\* The ids the pool's delete requests name: a seed post and a drawn id.
ConcDeleteIds == {2, IdLo}

\* The ids the pool's update requests name.  An update through a stale index
\* overwrites a post of another id and so frees that id for a later create:
\* with updates of drawn ids the list grows without bound.
ConcUpdateIds == {2}

HandleConc(w) ==
    \/ \E body \in ConcBodies : CreateBegin(w, body)
    \/ CreateScanNext(w)
    \/ CreateRetry(w)
    \/ CreateExitLoop(w)
    \/ CreateAppend(w)
    \/ \E i \in ConcDeleteIds : DeleteLookup(w, i)
    \/ \E i \in ConcUpdateIds, body \in ConcBodies : UpdateLookup(w, i, body)
    \/ LookupNext(w)
    \/ LookupFound(w)
    \/ LookupIndexError(w)
    \/ LookupNone(w)
    \/ DeleteDel(w)
    \/ UpdateAssign(w)

NextConc == \E w \in Workers : HandleConc(w)

SpecConc == Init /\ [][NextConc]_vars

---------------------------------------------------------------------------
(* Properties of the store when requests are served one at a time *)

\* The ids of a sequence of posts, in order.
IdsOf(posts) == [ k \in 1..Len(posts) |-> posts[k].id ]

\* No value occurs twice in s.
Distinct(s) == \A j, k \in 1..Len(s) : s[j] = s[k] => j = k

\* The post a valid body stands for under id i: the fields supplied, published
\* true and rating absent where the body leaves them out.
Supplied(body, i) ==
    [ title     |-> body.title,
      content   |-> body.content,
      published |-> IF "published" \in DOMAIN body THEN body.published ELSE TRUE,
      rating    |-> IF "rating" \in DOMAIN body THEN <<body.rating>> ELSE <<>>,
      id        |-> i ]

\* C1: whatever create, update and delete calls ran one at a time, no two posts
\* of my_posts have the same id, and the ids handed out by create and still
\* held (all of them when no delete ran in between) are pairwise distinct.
IdsAreUnique ==
    /\ Distinct(IdsOf(my_posts))
    /\ Distinct(inserted)

\* C1 witness: a create returned its post into a store that holds every id of
\* the draw range, after seed post 1 was deleted.
IdsAreUniqueWitness ==
    /\ request[1].op = "create"
    /\ response[1].status = HTTP_201_CREATED
    /\ \A i \in IdRange : Collides(my_posts, i)
    /\ ~Collides(my_posts, 1)

\* C2: a create call always comes to its end: while it stands at the loop that
\* draws ids, some id of the draw range is free, so that a draw can leave the loop.
CreateCanLeaveLoop ==
    \A w \in Workers :
        pc[w] = "scan" => \E i \in IdRange : ~Collides(my_posts, i)

\* C3: getLatest on an empty store ends with NotFound, the 404 HTTPException.
LatestOnEmptyIsNotFound ==
    (request[1].op = "latest" /\ Len(my_posts) = 0) => response[1] = NotFound

\* C4: on a store that holds a post, getLatest returns the post inserted last
\* among those held, as the store holds it; and right after a create it returns
\* the post that create returned.
LatestIsLastInserted ==
    /\ [](request[1].op = "latest" /\ Len(my_posts) > 0 =>
            /\ response[1].status = HTTP_200_OK
            /\ Len(response[1].body) = 1
            /\ response[1].body[1].id = inserted[Len(inserted)]
            /\ response[1].body = FindPost(my_posts, inserted[Len(inserted)]))
    /\ [][(/\ request[1].op = "create"
           /\ response[1].status = HTTP_201_CREATED
           /\ request'[1].op = "latest")
          => response'[1] = Returned(HTTP_200_OK, response[1].body)]_vars

\* C4 witness: getLatest returned a created post while the store holds, before
\* it, seed post 2 updated, seed post 1 being deleted and no other post left.
LatestIsLastInsertedWitness ==
    /\ request[1].op = "latest"
    /\ response[1].status = HTTP_200_OK
    /\ response[1].body[1].id \in IdRange
    /\ Len(my_posts) = 2
    /\ my_posts[1].id = 2
    /\ my_posts[1].title = "A"

\* C5: after a delete of id that succeeded, a get, a second delete or an update
\* of the same id that follows at once ends with NotFound.
DeletedIsGone ==
    [][(/\ request[1].op = "delete"
        /\ response[1].status = HTTP_204_NO_CONTENT
        /\ request'[1].op \in {"get", "delete", "update"}
        /\ request'[1].id = request[1].id)
       => response'[1] = NotFound]_vars

\* C5 witness: a delete of a created post succeeded while other posts are held.
DeletedIsGoneWitness ==
    /\ request[1].op = "delete"
    /\ request[1].id \in IdRange
    /\ response[1].status = HTTP_204_NO_CONTENT
    /\ Len(my_posts) >= 2

\* C6: after an update of id with fields that succeeded, a get of id that
\* follows at once returns exactly the fields supplied, defaults filled in,
\* under the id asked for.
UpdateThenGet ==
    [][(/\ request[1].op = "update"
        /\ response[1].status = HTTP_202_ACCEPTED
        /\ request'[1].op = "get"
        /\ request'[1].id = request[1].id)
       => response'[1] =
            Returned(HTTP_200_OK, <<Supplied(request[1].body, request[1].id)>>)]_vars

\* C6 witness: an update that leaves out published and rating succeeded on a
\* created post, the only post the store holds.
UpdateThenGetWitness ==
    /\ request[1].op = "update"
    /\ request[1].id \in IdRange
    /\ response[1].status = HTTP_202_ACCEPTED
    /\ DOMAIN request[1].body = {"title", "content"}
    /\ inserted = <<request[1].id>>

\* C7: a get of the id a create returned, following that create at once,
\* succeeds and returns the fields supplied to create, defaults filled in,
\* with that id.
CreateThenGet ==
    [][(/\ request[1].op = "create"
        /\ response[1].status = HTTP_201_CREATED
        /\ request'[1].op = "get"
        /\ request'[1].id = response[1].body[1].id)
       => response'[1] =
            Returned(HTTP_200_OK, <<Supplied(request[1].body, request'[1].id)>>)]_vars

\* C7 witness: a create that leaves out published and rating returned its post
\* into a store from which both seed posts were deleted.
CreateThenGetWitness ==
    /\ request[1].op = "create"
    /\ response[1].status = HTTP_201_CREATED
    /\ DOMAIN request[1].body = {"title", "content"}
    /\ Len(my_posts) = 1

\* C8: a get, update or delete of an id the store does not hold ends with
\* NotFound and leaves my_posts as it was.
MissingIdChangesNothing ==
    [][(/\ request'[1].op \in {"get", "update", "delete"}
        /\ pc[1] = "idle"
        /\ ~Collides(my_posts, request'[1].id))
       => (response'[1] = NotFound /\ my_posts' = my_posts)]_vars

\* C8 witness: a delete ended with NotFound on a store that holds posts.
MissingIdChangesNothingWitness ==
    /\ request[1].op = "delete"
    /\ response[1] = NotFound
    /\ Len(my_posts) >= 3

\* C9: list ends with 200 and returns the posts held, in the order in which
\* their ids were inserted.
ListInInsertionOrder ==
    request[1].op = "list" =>
        /\ response[1].status = HTTP_200_OK
        /\ response[1].body = my_posts
        /\ IdsOf(response[1].body) = inserted

\* C9 witness: list returned three posts or more, the first being seed post 2,
\* updated, after seed post 1 was deleted.
ListInInsertionOrderWitness ==
    /\ request[1].op = "list"
    /\ Len(response[1].body) >= 3
    /\ response[1].body[1].id = 2
    /\ response[1].body[1].title = "C"

---------------------------------------------------------------------------
(* Properties of the store under the thread pool *)

\* C10: under the concurrent dispatcher the writers are serialized, so that
\* two creates whose draw, scan and append interleave never leave two posts
\* with one id in my_posts.
ConcurrentCreatesKeepIdsUnique ==
    \A j, k \in 1..Len(my_posts) : j # k => my_posts[j].id # my_posts[k].id

\* C11: delete and update act only on the post whose id is the id asked for,
\* also when their lookup and their del or assignment interleave with another
\* writer: the step that deletes or assigns finds its index inside the list
\* and the post at that index has the requested id, and no step of a delete or
\* an update, its lookup included, ends in an IndexError.
WritersHitRequestedId ==
    [][\A w \in Workers :
          /\ (pc[w] \in {"del", "assign"} /\ pc'[w] = "idle")
             => (/\ InRange(my_posts, idx[w])
                 /\ my_posts[idx[w]].id = request[w].id)
          /\ response'[w] # IndexError]_vars

=============================================================================
